---- MODULE Spec2Model ----
(***************************************************************************)
(* Model of the Inkscape label-sheet extension template_printer_labels.py: *)
(* the Label geometry generators (get_guides, get_shapes), the LABELS      *)
(* catalog and the LabelSheet extension (specs, get_size, set_namedview).  *)
(*                                                                         *)
(* Numbers.  The source computes with floats whose values are lengths      *)
(* given to a tenth of a unit (13.5, 67.7, ...).  The model keeps every    *)
(* length as an integer count of twentieths of a unit, so that sums,       *)
(* products by an integer and the division by 2.0 of get_shapes are exact. *)
(* Every length that enters the model is a whole number of tenths, that    *)
(* is an even count.                                                       *)
(***************************************************************************)
EXTENDS Integers, Sequences, FiniteSets, TLC

VARIABLES
    label,      \* the Label instance whose generators are driven
    guides_gen, \* frame of the generator returned by label.get_guides()
    guides,     \* the guides that generator has yielded so far
    shapes_gen, \* frame of the generator returned by label.get_shapes()
    shapes,     \* the shapes that generator has yielded so far
    shapes_err, \* the exception the shapes generator has raised, or NoError
    options,    \* LabelSheet.options: template, add_shapes, add_grid
    svg,        \* LabelSheet.svg: the document's children and its namedview
    ret,        \* outcome of the last LabelSheet call
    runs        \* number of LabelSheet calls made so far

vars == <<label, guides_gen, guides, shapes_gen, shapes, shapes_err,
          options, svg, ret, runs>>

label_vars == <<label, guides_gen, guides, shapes_gen, shapes, shapes_err>>

sheet_vars == <<options, svg, ret, runs>>

\* ------------------------------------------------------------------ bounds

\* Largest number of columns and of rows of an enumerated Label.
MaxGrid == 3

\* Template indices are drawn from -MaxIndex .. MaxIndex.
MaxIndex == 4

\* Largest number of LabelSheet calls in one behaviour.
MaxRuns == 2

\* ----------------------------------------------------------------- numbers

\* A length of n tenths of a unit, in the model's twentieths.
Tenths(n) == 2 * n

\* Half with the division left out.
Half_whole(x) == x

\* x / 2.0 for a length x (an even count of twentieths: the division is exact).
Half(x) == x \div 2

\* str(x) for a float x: the decimal text of x, a value that is no number.
Str(x) == [str |-> x]

\* Python's None (the name of an unnamed guide).
None == "None"

CIRCLE == "circular"

RECTANGLE == "rectangular"

\* str(SHAPE_STYLE): the serialised style every shape carries.
SHAPE_STYLE == "stroke:#0086e5;fill:none;stroke-width:0.2"

\* ------------------------------------------------------------------- Label

\* The dataclass constructor, with its defaults spelled out by the caller.
Label(page_size, units, label_size, grid, offset, type, spacing) ==
    [page_size |-> page_size, units |-> units, label_size |-> label_size,
     grid |-> grid, offset |-> offset, type |-> type, spacing |-> spacing]

\* page_width with the pair unpacked the wrong way round.
page_width_swapped(self) == self.page_size[2]

page_width(self) == self.page_size[1]
page_height(self) == self.page_size[2]
label_width(self) == self.label_size[1]
label_height(self) == self.label_size[2]
cols(self) == self.grid[1]
rows(self) == self.grid[2]
offset_x(self) == self.offset[1]
offset_y(self) == self.offset[2]
spacing_x(self) == self.spacing[1]
spacing_y(self) == self.spacing[2]

\* ------------------------------------------------------ get_guides, by steps

\* A suspended (or finished) generator frame: the line it stands at and the
\* loop variable that is live there.
Frame(pc, r, c) == [pc |-> pc, r |-> r, c |-> c]

\* No exception: exceptions are tuples that start with the exception's class.
NoError == <<>>

\* What one next() does: the frame it leaves and what it yielded (<<>> when the
\* generator returned or raised instead).
Yield(pc, r, c, value) == [gen |-> Frame(pc, r, c), out |-> <<value>>, err |-> NoError]
Return == [gen |-> Frame("done", 0, 0), out |-> <<>>, err |-> NoError]

\* Line 61: x of the column boundary c.
guide_x(self, c) == offset_x(self) + c * (label_width(self) + spacing_x(self))

\* Lines 60-62: the head of the column loop with c its next value.
guides_col_loop(self, c) ==
    IF c < cols(self)
    THEN Yield("line62", 0, c, <<guide_x(self, c), FALSE, None>>)
    ELSE Return

\* Lines 63-64, resumed after the yield of line 62.
guides_after_62(self, c) ==
    IF spacing_x(self) > 0
    THEN Yield("line64", 0, c, <<guide_x(self, c) - spacing_x(self), FALSE, None>>)
    ELSE guides_col_loop(self, c + 1)

\* Line 55: y of the row boundary r.
guide_y(self, r) == offset_y(self) + r * (label_height(self) + spacing_y(self))

\* guides_row_loop with the bound off by one: range(1, rows + 1).
guides_row_loop_inclusive(self, r) ==
    IF r <= rows(self)
    THEN Yield("line56", r, 0, <<guide_y(self, r), TRUE, None>>)
    ELSE guides_col_loop(self, 1)

\* Lines 54-56: the head of the row loop with r its next value.
guides_row_loop(self, r) ==
    IF r < rows(self)
    THEN Yield("line56", r, 0, <<guide_y(self, r), TRUE, None>>)
    ELSE guides_col_loop(self, 1)

\* guides_after_56 with the test spacing_y >= 0.0.
guides_after_56_nonnegative(self, r) ==
    IF spacing_y(self) >= 0
    THEN Yield("line58", r, 0, <<guide_y(self, r) - spacing_y(self), TRUE, None>>)
    ELSE guides_row_loop(self, r + 1)

\* Lines 57-58, resumed after the yield of line 56.
guides_after_56(self, r) ==
    IF spacing_y(self) > 0
    THEN Yield("line58", r, 0, <<guide_y(self, r) - spacing_y(self), TRUE, None>>)
    ELSE guides_row_loop(self, r + 1)

\* guides_offset_x with offset_y tested in place of offset_x.
guides_offset_x_by_y(self) ==
    IF offset_y(self) # 0
    THEN Yield("line47", 0, 0, <<page_width(self) - offset_x(self), FALSE, "right offset">>)
    ELSE guides_row_loop(self, 1)

\* guides_offset_x with the two names exchanged: "left offset" comes first.
guides_offset_x_left_first(self) ==
    IF offset_x(self) # 0
    THEN Yield("line47", 0, 0, <<page_width(self) - offset_x(self), FALSE, "left offset">>)
    ELSE guides_row_loop(self, 1)

\* Lines 46-47.
guides_offset_x(self) ==
    IF offset_x(self) # 0
    THEN Yield("line47", 0, 0, <<page_width(self) - offset_x(self), FALSE, "right offset">>)
    ELSE guides_row_loop(self, 1)

\* Lines 48-52, resumed after the yield of line 47.
guides_after_47(self) ==
    Yield("line48", 0, 0,
          <<page_width(self) - cols(self) * label_width(self)
              - (cols(self) - 1) * spacing_x(self) - offset_x(self),
            FALSE, "left offset">>)

\* Lines 38-39.
guides_offset_y(self) ==
    IF offset_y(self) # 0
    THEN Yield("line39", 0, 0, <<page_height(self) - offset_y(self), TRUE, "bottom offset">>)
    ELSE guides_offset_x(self)

\* Lines 40-44, resumed after the yield of line 39.
guides_after_39(self) ==
    Yield("line40", 0, 0,
          <<page_height(self) - rows(self) * label_height(self)
              - (rows(self) - 1) * spacing_y(self) - offset_y(self),
            TRUE, "top offset">>)

\* One next() on the generator of get_guides, from frame gen.
get_guides_next(self, gen) ==
    CASE gen.pc = "created" -> guides_offset_y(self)
      [] gen.pc = "line39" -> guides_after_39(self)
      [] gen.pc = "line40" -> guides_offset_x(self)
      [] gen.pc = "line47" -> guides_after_47(self)
      [] gen.pc = "line48" -> guides_row_loop(self, 1)
      [] gen.pc = "line56" -> guides_after_56(self, gen.r)
      [] gen.pc = "line58" -> guides_row_loop(self, gen.r + 1)
      [] gen.pc = "line62" -> guides_after_62(self, gen.c)
      [] gen.pc = "line64" -> guides_col_loop(self, gen.c + 1)

\* ------------------------------------------------------ get_shapes, by steps

Raise(exc) == [gen |-> Frame("raised", 0, 0), out |-> <<>>, err |-> exc]

\* inkex.Rectangle.new(left, top, width, height), before its style is set.
Rectangle(left, top, width, height) ==
    [tag |-> "rect", left |-> left, top |-> top, width |-> width, height |-> height]

\* inkex.Ellipse.new(center, radius), before its style is set.
Ellipse(center, radius) ==
    [tag |-> "ellipse", center |-> center, radius |-> radius]

\* Line 96: element.style = str(SHAPE_STYLE).
Styled(element) == [f \in DOMAIN element \cup {"style"} |->
                       IF f = "style" THEN SHAPE_STYLE ELSE element[f]]

\* shape_y with the width taken for the height.
shape_y_by_width(self, r) == offset_y(self) + r * (label_width(self) + spacing_y(self))

\* Lines 75-76: the corner of cell (r, c).
shape_x(self, c) == offset_x(self) + c * (label_width(self) + spacing_x(self))
shape_y(self, r) == offset_y(self) + r * (label_height(self) + spacing_y(self))

\* shapes_body with an unknown kind drawn as a rectangle instead of raising.
shapes_body_lenient(self, r, c) ==
    LET x == shape_x(self, c)
        y == shape_y(self, r)
        rx == Half(label_width(self))
        ry == Half(label_height(self))
    IN  CASE self.type = "circular" ->
               Yield("line97", r, c, Styled(Ellipse(<<x + rx, y + ry>>, <<rx, ry>>)))
          [] OTHER ->
               Yield("line97", r, c,
                     Styled(Rectangle(x, y, label_width(self), label_height(self))))

\* Lines 75-97: the body of the inner loop for cell (r, c).
shapes_body(self, r, c) ==
    LET x == shape_x(self, c)
        y == shape_y(self, r)
        rx == Half(label_width(self))
        ry == Half(label_height(self))
    IN  CASE self.type = "rectangular" ->
               Yield("line97", r, c,
                     Styled(Rectangle(x, y, label_width(self), label_height(self))))
          [] self.type = "circular" ->
               Yield("line97", r, c, Styled(Ellipse(<<x + rx, y + ry>>, <<rx, ry>>)))
          [] OTHER ->
               Raise(<<"ValueError", "Unknown label shape type: ", self.type>>)

\* shapes_loop with the inner bound off by one: range(cols + 1).
RECURSIVE shapes_loop_inclusive(_, _, _)
shapes_loop_inclusive(self, r, c) ==
    IF r >= rows(self) THEN Return
    ELSE IF c > cols(self) THEN shapes_loop_inclusive(self, r + 1, 0)
    ELSE shapes_body(self, r, c)

\* Lines 73-74: the head of the inner loop with (r, c) the next cell tried.
RECURSIVE shapes_loop(_, _, _)
shapes_loop(self, r, c) ==
    IF r >= rows(self) THEN Return
    ELSE IF c >= cols(self) THEN shapes_loop(self, r + 1, 0)
    ELSE shapes_body(self, r, c)

\* One next() on the generator of get_shapes, from frame gen.
get_shapes_next(self, gen) ==
    CASE gen.pc = "created" -> shapes_loop(self, 0, 0)
      [] gen.pc = "line97" -> shapes_loop(self, gen.r, gen.c + 1)

\* ------------------------------------------------- the generators, consumed

\* list(gen) for a get_guides generator standing at frame gen.
RECURSIVE guides_rest(_, _)
guides_rest(self, gen) ==
    LET n == get_guides_next(self, gen)
    IN  IF n.gen.pc = "done" THEN <<>> ELSE n.out \o guides_rest(self, n.gen)

\* Line 132: the guides the for loop over self.specs.get_guides() receives.
get_guides(self) == guides_rest(self, Frame("created", 0, 0))

\* Consuming a get_shapes generator standing at frame gen: the shapes received
\* and the exception that ended the loop, if one did.
RECURSIVE shapes_rest(_, _)
shapes_rest(self, gen) ==
    LET n == get_shapes_next(self, gen)
    IN  IF n.gen.pc = "done" THEN [items |-> <<>>, err |-> NoError]
        ELSE IF n.gen.pc = "raised" THEN [items |-> <<>>, err |-> n.err]
        ELSE LET rest == shapes_rest(self, n.gen)
             IN  [items |-> n.out \o rest.items, err |-> rest.err]

\* Line 137: what the for loop over self.specs.get_shapes() receives.
get_shapes(self) == shapes_rest(self, Frame("created", 0, 0))

\* ------------------------------------------------------------------ LABELS

A4 == <<Tenths(2100), Tenths(2970)>>

LABELS == <<
    <<"TopStick No. 8707",
      Label(A4, "mm", <<Tenths(700), Tenths(410)>>, <<3, 7>>,
            <<0, Tenths(50)>>, RECTANGLE, <<0, 0>>)>>,
    <<"TownStix A4-Round-24",
      Label(A4, "mm", <<Tenths(400), Tenths(400)>>, <<4, 6>>,
            <<Tenths(160), Tenths(135)>>, CIRCLE, <<Tenths(60), Tenths(60)>>)>>,
    <<"Avery / Zweckform No. 3660",
      Label(A4, "mm", <<Tenths(970), Tenths(677)>>, <<2, 4>>,
            <<Tenths(80), Tenths(131)>>, RECTANGLE, <<0, 0>>)>> >>

\* -------------------------------------------------------------- LabelSheet

Ok(val) == [val |-> val, err |-> NoError]
Fail(exc) == [val |-> None, err |-> exc]

\* list_getitem with every negative index refused.
list_getitem_from_zero(list, i) ==
    IF i < 0 \/ i >= Len(list) THEN Fail(<<"IndexError">>) ELSE Ok(list[i + 1])

\* Python's list[i] for an int i: a negative i counts from the end, and an i
\* outside -len .. len-1 raises IndexError.
list_getitem(list, i) ==
    LET j == IF i < 0 THEN i + Len(list) ELSE i
    IN  IF j < 0 \/ j >= Len(list) THEN Fail(<<"IndexError">>) ELSE Ok(list[j + 1])

\* Lines 112-114: the property specs.
specs(self_options) ==
    LET entry == list_getitem(LABELS, self_options.template)
    IN  IF entry.err # NoError THEN entry ELSE Ok(entry.val[2])

\* Lines 123-126.
get_size(self_options) ==
    LET sp == specs(self_options)
    IN  IF sp.err # NoError THEN sp
        ELSE Ok(<<sp.val.page_size[1], sp.val.units, sp.val.page_size[2], sp.val.units>>)

\* inkex.Group.new("Shapes") with the shapes added to it.
Group(name, children) == [tag |-> "g", label |-> name, children |-> children]

\* Lines 143-151: the Grid element.
Grid(sp, units) ==
    [tag |-> "grid", type |-> "modular",
     originx |-> Str(sp.offset[1]), originy |-> Str(sp.offset[2]),
     spacingx |-> Str(sp.label_size[1]), spacingy |-> Str(sp.label_size[2]),
     units |-> units]

\* Lines 132-133: every guide is handed to namedview.add_guide.
add_guides(doc, sp) == [doc EXCEPT !.namedview.guides = @ \o get_guides(sp)]

\* Lines 135-139: the group is added only after every shape was received.
add_shapes(doc, sp) ==
    LET sh == get_shapes(sp)
    IN  IF sh.err # NoError THEN [svg |-> doc, err |-> sh.err]
        ELSE [svg |-> [doc EXCEPT !.children = Append(@, Group("Shapes", sh.items))],
              err |-> NoError]

\* add_grid with show_guides left as it was.
add_grid_not_shown(doc, sp, units) ==
    [doc EXCEPT !.namedview.children = Append(@, Grid(sp, units))]

\* Lines 142-153.
add_grid(doc, sp, units) ==
    [doc EXCEPT !.namedview.show_guides = TRUE,
                !.namedview.children = Append(@, Grid(sp, units))]

\* Lines 128-153: the document and the exception set_namedview leaves.  The
\* host's TemplateExtension.set_namedview (line 129) touches none of the parts
\* of the document kept here.
set_namedview(self_options, self_svg) ==
    LET size == get_size(self_options)
    IN  IF size.err # NoError THEN [svg |-> self_svg, err |-> size.err]
        ELSE LET sp == specs(self_options).val
                 units == size.val[4]
                 guided == add_guides(self_svg, sp)
                 shaped == IF self_options.add_shapes
                           THEN add_shapes(guided, sp)
                           ELSE [svg |-> guided, err |-> NoError]
             IN  IF shaped.err # NoError THEN shaped
                 ELSE IF self_options.add_grid
                 THEN [svg |-> add_grid(shaped.svg, sp, units), err |-> NoError]
                 ELSE shaped

\* ----------------------------------------------- the Label specification

Sizes == {<<Tenths(2), Tenths(1)>>, <<Tenths(1), Tenths(3)>>}

Offsets == {<<0, 0>>, <<Tenths(1), 0>>, <<0, Tenths(3)>>,
            <<Tenths(1), Tenths(3)>>, <<-Tenths(1), -Tenths(2)>>}

Spacings == {<<0, 0>>, <<Tenths(1), 0>>, <<0, Tenths(2)>>,
             <<Tenths(1), Tenths(2)>>, <<-Tenths(1), -Tenths(1)>>}

Types == {RECTANGLE, CIRCLE, "invalid_type"}

Page == <<Tenths(20), Tenths(30)>>

\* The Labels of the tests of test_label.py that the enumeration leaves out.
TestLabels == {
    Label(A4, "mm", <<Tenths(500), Tenths(300)>>, <<2, 2>>,
          <<Tenths(100), Tenths(200)>>, RECTANGLE, <<Tenths(50), Tenths(50)>>),
    Label(A4, "mm", <<Tenths(400), Tenths(400)>>, <<4, 6>>,
          <<Tenths(160), Tenths(135)>>, RECTANGLE, <<Tenths(60), Tenths(60)>>),
    Label(A4, "mm", <<Tenths(700), Tenths(410)>>, <<3, 7>>,
          <<0, 0>>, "invalid_type", <<0, 0>>) }

Labels ==
    { Label(Page, "mm", size, <<nc, nr>>, offset, type, spacing) :
        size \in Sizes, nc \in 0..MaxGrid, nr \in 0..MaxGrid,
        offset \in Offsets, type \in Types, spacing \in Spacings }
    \cup { LABELS[i][2] : i \in 1..Len(LABELS) }
    \cup TestLabels

NotCalled == Frame("none", 0, 0)

Running(gen) == gen.pc \notin {"none", "done", "raised"}

NoOptions == [template |-> 0, add_shapes |-> FALSE, add_grid |-> FALSE]

EmptyDocument ==
    [children |-> <<>>,
     namedview |-> [guides |-> <<>>, show_guides |-> FALSE, children |-> <<>>]]

NoCall == [op |-> "none", val |-> None, err |-> NoError]

Init ==
    /\ label \in Labels
    /\ guides_gen = NotCalled
    /\ guides = <<>>
    /\ shapes_gen = NotCalled
    /\ shapes = <<>>
    /\ shapes_err = NoError
    /\ options = NoOptions
    /\ svg = EmptyDocument
    /\ ret = NoCall
    /\ runs = 0

\* label.get_guides(): the call only creates the generator.
GetGuides ==
    /\ guides_gen = NotCalled
    /\ guides_gen' = Frame("created", 0, 0)
    /\ UNCHANGED <<label, guides, shapes_gen, shapes, shapes_err, sheet_vars>>

\* next() on the guides generator.
NextGuide ==
    /\ Running(guides_gen)
    /\ LET n == get_guides_next(label, guides_gen)
       IN  /\ guides_gen' = n.gen
           /\ guides' = guides \o n.out
    /\ UNCHANGED <<label, shapes_gen, shapes, shapes_err, sheet_vars>>

\* label.get_shapes(): the call only creates the generator.
GetShapes ==
    /\ shapes_gen = NotCalled
    /\ shapes_gen' = Frame("created", 0, 0)
    /\ UNCHANGED <<label, guides_gen, guides, shapes, shapes_err, sheet_vars>>

\* next() on the shapes generator.
NextShape ==
    /\ Running(shapes_gen)
    /\ LET n == get_shapes_next(label, shapes_gen)
       IN  /\ shapes_gen' = n.gen
           /\ shapes' = shapes \o n.out
           /\ shapes_err' = n.err
    /\ UNCHANGED <<label, guides_gen, guides, sheet_vars>>

Next == GetGuides \/ NextGuide \/ GetShapes \/ NextShape

Spec == Init /\ [][Next]_vars

\* ------------------------------------------ the LabelSheet specification

\* Documents a run can start from: a fresh one, or one with a layer already
\* in it and its guides shown.
Documents ==
    { [children |-> ch,
       namedview |-> [guides |-> <<>>, show_guides |-> sg, children |-> <<>>]] :
        ch \in {<<>>, <<Group("Layer 1", <<>>)>>}, sg \in BOOLEAN }

SheetInit ==
    /\ label = LABELS[1][2]
    /\ guides_gen = NotCalled
    /\ guides = <<>>
    /\ shapes_gen = NotCalled
    /\ shapes = <<>>
    /\ shapes_err = NoError
    /\ options \in [template : (-MaxIndex)..MaxIndex,
                    add_shapes : BOOLEAN, add_grid : BOOLEAN]
    /\ svg \in Documents
    /\ ret = NoCall
    /\ runs = 0

\* Reading the property self.specs.
ReadSpecs ==
    /\ runs < MaxRuns
    /\ runs' = runs + 1
    /\ ret' = [op |-> "specs"] @@ specs(options)
    /\ UNCHANGED <<label_vars, options, svg>>

\* self.get_size().
GetSize ==
    /\ runs < MaxRuns
    /\ runs' = runs + 1
    /\ ret' = [op |-> "get_size"] @@ get_size(options)
    /\ UNCHANGED <<label_vars, options, svg>>

\* self.set_namedview(width, height, units).
SetNamedview ==
    /\ runs < MaxRuns
    /\ runs' = runs + 1
    /\ LET done == set_namedview(options, svg)
       IN  /\ svg' = done.svg
           /\ ret' = [op |-> "set_namedview", val |-> None, err |-> done.err]
    /\ UNCHANGED <<label_vars, options>>

SheetNext == ReadSpecs \/ GetSize \/ SetNamedview

SheetSpec == SheetInit /\ [][SheetNext]_vars

\* ------------------------------------------------------------- properties

ValidGrid == cols(label) >= 1 /\ rows(label) >= 1

KnownType == label.type \in {RECTANGLE, CIRCLE}

ShapesDone == shapes_gen.pc = "done"

GuidesDone == guides_gen.pc = "done"

\* The cell of the k-th shape (k from 1) in row-major order.
RowOf(k) == (k - 1) \div cols(label)
ColOf(k) == (k - 1) % cols(label)

\* C1: for a Label with cols >= 1, rows >= 1 and a recognised shape kind,
\* whatever the offset and spacing, the shapes generator never raises, never
\* yields more than cols*rows shapes, and has yielded exactly cols*rows shapes
\* when it is exhausted.
C1_ShapeCount ==
    (ValidGrid /\ KnownType) =>
        /\ shapes_gen.pc # "raised"
        /\ shapes_err = NoError
        /\ Len(shapes) <= cols(label) * rows(label)
        /\ ShapesDone => Len(shapes) = cols(label) * rows(label)

C1_Witness ==
    /\ ShapesDone
    /\ KnownType
    /\ label.grid = <<3, 2>>
    /\ label.offset = <<Tenths(1), Tenths(3)>>
    /\ label.spacing = <<Tenths(1), Tenths(2)>>
    /\ Len(shapes) = 6

\* C2: in rectangular mode the shapes come in row-major order: the shape at
\* position k = r*cols + c (from 0) is a rectangle with
\* left = offset.x + c*(labelWidth + spacing.x),
\* top = offset.y + r*(labelHeight + spacing.y), width = labelWidth and
\* height = labelHeight, and every cell of the grid has its shape once the
\* generator is exhausted; grid (2,2), offset (10,20), spacing (5,5),
\* label (50,30) gives (10,20), (65,20), (10,55), (65,55).
C2_Example ==
    Label(A4, "mm", <<Tenths(500), Tenths(300)>>, <<2, 2>>,
          <<Tenths(100), Tenths(200)>>, RECTANGLE, <<Tenths(50), Tenths(50)>>)

C2_RectangleRowMajor ==
    (label.type = RECTANGLE) =>
        /\ \A k \in 1..Len(shapes) :
              /\ shapes[k].tag = "rect"
              /\ shapes[k].left = label.offset[1]
                     + ColOf(k) * (label.label_size[1] + label.spacing[1])
              /\ shapes[k].top = label.offset[2]
                     + RowOf(k) * (label.label_size[2] + label.spacing[2])
              /\ shapes[k].width = label.label_size[1]
              /\ shapes[k].height = label.label_size[2]
        /\ (ShapesDone /\ ValidGrid) =>
              \A r \in 0..(rows(label) - 1), c \in 0..(cols(label) - 1) :
                  r * cols(label) + c + 1 \in 1..Len(shapes)
        /\ (ShapesDone /\ label = C2_Example) =>
              [k \in 1..4 |-> <<shapes[k].left, shapes[k].top>>] =
                  << <<Tenths(100), Tenths(200)>>, <<Tenths(650), Tenths(200)>>,
                     <<Tenths(100), Tenths(550)>>, <<Tenths(650), Tenths(550)>> >>

C2_Witness ==
    /\ ShapesDone
    /\ label = C2_Example
    /\ Len(shapes) = 4
    /\ shapes[3].left = Tenths(100)
    /\ shapes[3].top = Tenths(550)

\* C9: in circular mode the shape at position r*cols + c is an ellipse with
\* radiusX = labelWidth/2, radiusY = labelHeight/2,
\* centerX = offset.x + c*(labelWidth + spacing.x) + labelWidth/2 and
\* centerY = offset.y + r*(labelHeight + spacing.y) + labelHeight/2: it is
\* inscribed in the rectangle the same Label yields in rectangular mode.
\* (Halves are stated doubled: 2*radiusX = labelWidth.)
C9_EllipseInscribed ==
    (label.type = CIRCLE) =>
        /\ \A k \in 1..Len(shapes) :
              /\ shapes[k].tag = "ellipse"
              /\ 2 * shapes[k].radius[1] = label.label_size[1]
              /\ 2 * shapes[k].radius[2] = label.label_size[2]
              /\ 2 * shapes[k].center[1] =
                     2 * (label.offset[1]
                          + ColOf(k) * (label.label_size[1] + label.spacing[1]))
                     + label.label_size[1]
              /\ 2 * shapes[k].center[2] =
                     2 * (label.offset[2]
                          + RowOf(k) * (label.label_size[2] + label.spacing[2]))
                     + label.label_size[2]
        /\ ShapesDone =>
              LET rects == get_shapes([label EXCEPT !.type = RECTANGLE]).items
              IN  /\ Len(rects) = Len(shapes)
                  /\ \A k \in 1..Len(shapes) :
                        /\ shapes[k].center[1] - shapes[k].radius[1] = rects[k].left
                        /\ shapes[k].center[2] - shapes[k].radius[2] = rects[k].top
                        /\ shapes[k].center[1] + shapes[k].radius[1]
                               = rects[k].left + rects[k].width
                        /\ shapes[k].center[2] + shapes[k].radius[2]
                               = rects[k].top + rects[k].height

C9_Witness ==
    /\ ShapesDone
    /\ label = LABELS[2][2]
    /\ Len(shapes) = 24
    /\ shapes[24].center = <<Tenths(160 + 3 * 460 + 200), Tenths(135 + 5 * 460 + 200)>>
    /\ shapes[24].radius = <<Tenths(200), Tenths(200)>>

OffsetNames == {"bottom offset", "top offset", "right offset", "left offset"}

IsUnnamed(g) == g[3] = None
IsHorizontal(g) == g[2]
IsVertical(g) == ~g[2]
IsUnnamedHorizontal(g) == IsUnnamed(g) /\ IsHorizontal(g)
IsUnnamedVertical(g) == IsUnnamed(g) /\ IsVertical(g)

\* The positions of a sequence of guides.
Positions(gs) == [k \in 1..Len(gs) |-> gs[k][1]]

\* How many guides of gs carry the name.
NameCount(gs, name) == Cardinality({k \in 1..Len(gs) : gs[k][3] = name})

\* C3: for a Label with offset (0,0), spacing (0,0) and cols, rows >= 1,
\* get_guides yields exactly (cols-1) + (rows-1) guides, none of them named:
\* rows-1 horizontal ones and cols-1 vertical ones, so that rows = 1 (or
\* cols = 1) gives no guide on that axis.
C3_GuideCountNoOffset ==
    (ValidGrid /\ label.offset = <<0, 0>> /\ label.spacing = <<0, 0>>) =>
        /\ \A k \in 1..Len(guides) : guides[k][3] = None
        /\ Len(guides) <= (cols(label) - 1) + (rows(label) - 1)
        /\ GuidesDone =>
              /\ Len(guides) = (cols(label) - 1) + (rows(label) - 1)
              /\ Len(SelectSeq(guides, IsHorizontal)) = rows(label) - 1
              /\ Len(SelectSeq(guides, IsVertical)) = cols(label) - 1

C3_Witness ==
    /\ GuidesDone
    /\ label.offset = <<0, 0>>
    /\ label.spacing = <<0, 0>>
    /\ label.grid = <<3, 1>>
    /\ Len(guides) = 2
    /\ SelectSeq(guides, IsHorizontal) = <<>>

\* C4: get_guides yields exactly 2 named guides for each axis whose offset is
\* nonzero and none for an axis whose offset is zero: a nonzero offset.y gives
\* one horizontal guide named "bottom offset" and one named "top offset", a
\* nonzero offset.x one vertical guide named "right offset" and one named
\* "left offset"; every other guide is unnamed.
C4_NamedOffsetGuides ==
    /\ \A k \in 1..Len(guides) :
          /\ guides[k][3] \in OffsetNames \cup {None}
          /\ guides[k][3] \in {"bottom offset", "top offset"} =>
                (guides[k][2] /\ label.offset[2] # 0)
          /\ guides[k][3] \in {"right offset", "left offset"} =>
                (~guides[k][2] /\ label.offset[1] # 0)
    /\ \A name \in OffsetNames : NameCount(guides, name) <= 1
    /\ GuidesDone =>
          /\ \A name \in {"bottom offset", "top offset"} :
                NameCount(guides, name) = IF label.offset[2] # 0 THEN 1 ELSE 0
          /\ \A name \in {"right offset", "left offset"} :
                NameCount(guides, name) = IF label.offset[1] # 0 THEN 1 ELSE 0

C4_Witness ==
    /\ GuidesDone
    /\ label.offset = <<0, Tenths(3)>>
    /\ label.grid = <<2, 2>>
    /\ Len(guides) >= 4
    /\ guides[1][3] = "bottom offset"
    /\ guides[2][3] = "top offset"
    /\ \A k \in 3..Len(guides) : guides[k][3] = None

\* The unnamed guides of an axis with n cells, first cell at offset, cells of
\* the given size and the given spacing: per boundary i in 1..n-1 the guide at
\* offset + i*(size + spacing), followed when spacing > 0 by the one at that
\* position less the spacing.
BoundaryPositions(n, offset, size, spacing) ==
    IF spacing > 0
    THEN [k \in 1..(2 * (n - 1)) |->
            IF k % 2 = 1
            THEN offset + ((k + 1) \div 2) * (size + spacing)
            ELSE offset + (k \div 2) * (size + spacing) - spacing]
    ELSE [k \in 1..(n - 1) |-> offset + k * (size + spacing)]

C5_Example ==
    Label(A4, "mm", <<Tenths(400), Tenths(400)>>, <<4, 6>>,
          <<Tenths(160), Tenths(135)>>, RECTANGLE, <<Tenths(60), Tenths(60)>>)

\* C5: for every row boundary r in 1..rows-1 get_guides yields an unnamed
\* horizontal guide at y = offset.y + r*(labelHeight + spacing.y), and one more
\* at y - spacing.y exactly when spacing.y > 0, and likewise for the column
\* boundaries with x; an axis of n >= 1 cells has 2*(n-1) unnamed guides when
\* its spacing is positive and n-1 when it is zero; grid (4,6) with nonzero
\* offsets and spacing (6,6) gives 2+2+6+10 = 20 guides.
C5_BoundaryGuides ==
    GuidesDone =>
        LET hs == SelectSeq(guides, IsUnnamedHorizontal)
            vs == SelectSeq(guides, IsUnnamedVertical)
        IN  /\ Positions(hs) = BoundaryPositions(label.grid[2], label.offset[2],
                                   label.label_size[2], label.spacing[2])
            /\ Positions(vs) = BoundaryPositions(label.grid[1], label.offset[1],
                                   label.label_size[1], label.spacing[1])
            /\ (label.grid[2] >= 1 /\ label.spacing[2] > 0) =>
                  Len(hs) = 2 * (label.grid[2] - 1)
            /\ (label.grid[2] >= 1 /\ label.spacing[2] = 0) =>
                  Len(hs) = label.grid[2] - 1
            /\ (label.grid[1] >= 1 /\ label.spacing[1] > 0) =>
                  Len(vs) = 2 * (label.grid[1] - 1)
            /\ (label.grid[1] >= 1 /\ label.spacing[1] = 0) =>
                  Len(vs) = label.grid[1] - 1
            /\ label = C5_Example => Len(guides) = 20

C5_Witness ==
    /\ GuidesDone
    /\ label = C5_Example
    /\ Len(guides) = 20
    /\ Len(SelectSeq(guides, IsUnnamedHorizontal)) = 10
    /\ Len(SelectSeq(guides, IsUnnamedVertical)) = 6

\* C6: for a Label (cols, rows >= 1) whose shape kind is neither "rectangular"
\* nor "circular", neither the construction nor the call of get_shapes fails;
\* the ValueError naming the kind is raised by the first next(), so that no
\* shape is ever yielded; get_guides yields what it yields for the same Label
\* with a recognised kind.
C6_UnknownKindRaisesLazily ==
    (ValidGrid /\ ~KnownType) =>
        /\ shapes_gen.pc \in {"none", "created"} => shapes_err = NoError
        /\ shapes_gen.pc \in {"none", "created", "raised"}
        /\ shapes = <<>>
        /\ shapes_gen.pc = "raised" =>
              shapes_err = <<"ValueError", "Unknown label shape type: ", label.type>>
        /\ GuidesDone => guides = get_guides([label EXCEPT !.type = RECTANGLE])

C6_Witness ==
    /\ shapes_gen.pc = "raised"
    /\ shapes = <<>>
    /\ shapes_err = <<"ValueError", "Unknown label shape type: ", "invalid_type">>
    /\ label.grid = <<3, 7>>
    /\ GuidesDone
    /\ Len(guides) = 8

\* C7: a Label whose grid has cols < 1 or rows < 1 is rejected: neither its
\* guides nor its shapes are ever computed to the end.
C7_GridRejected ==
    ~ValidGrid => (~GuidesDone /\ ~ShapesDone)

\* The last call read the property specs.
SpecsRead == ret.op = "specs"

\* C8, as stated: the lookup returns the Label of the i-th entry of LABELS for
\* i in 0..len(LABELS)-1 and fails with IndexError for every other integer i,
\* the negative ones included.
C8_IndexErrorOutsideZeroToLen ==
    SpecsRead =>
        IF options.template \in 0..(Len(LABELS) - 1)
        THEN ret.err = NoError /\ ret.val = LABELS[options.template + 1][2]
        ELSE ret.err = <<"IndexError">>

\* C8, amended: the lookup returns the Label of the i-th entry of LABELS for
\* i in 0..len(LABELS)-1, the Label of entry len(LABELS)+i for
\* i in -len(LABELS)..-1, and fails with IndexError for i >= len(LABELS) and
\* for i < -len(LABELS).
C8_IndexLookup ==
    SpecsRead =>
        LET i == options.template
            n == Len(LABELS)
        IN  /\ i \in 0..(n - 1) =>
                  (ret.err = NoError /\ ret.val = LABELS[i + 1][2])
            /\ i \in (-n)..(-1) =>
                  (ret.err = NoError /\ ret.val = LABELS[n + i + 1][2])
            /\ (i >= n \/ i < -n) => ret.err = <<"IndexError">>

C8_Witness ==
    /\ SpecsRead
    /\ options.template = -1
    /\ ret.err = NoError
    /\ ret.val = LABELS[3][2]

\* The template a valid index selects.
Selected == LABELS[(options.template % Len(LABELS)) + 1][2]

\* C10: one run of set_namedview for a valid template index appends every
\* guide of the selected template's get_guides() sequence to the namedview's
\* guides, once each and in order, whatever the flags; it appends a "Shapes"
\* group of cols*rows shapes to the document if add_shapes is true and leaves
\* the document's children as they were if not; it sets show_guides and
\* appends a grid element to the namedview if add_grid is true and leaves both
\* as they were if not.
C10_SetNamedviewEffects ==
    [][ (runs' = runs + 1 /\ ret'.op = "set_namedview"
            /\ options.template \in (-Len(LABELS))..(Len(LABELS) - 1)) =>
          /\ ret'.err = NoError
          /\ svg'.namedview.guides = svg.namedview.guides \o get_guides(Selected)
          /\ IF options.add_shapes
             THEN /\ Len(svg'.children) = Len(svg.children) + 1
                  /\ SubSeq(svg'.children, 1, Len(svg.children)) = svg.children
                  /\ svg'.children[Len(svg'.children)].tag = "g"
                  /\ svg'.children[Len(svg'.children)].label = "Shapes"
                  /\ Len(svg'.children[Len(svg'.children)].children)
                         = Selected.grid[1] * Selected.grid[2]
             ELSE svg'.children = svg.children
          /\ IF options.add_grid
             THEN /\ svg'.namedview.show_guides = TRUE
                  /\ Len(svg'.namedview.children) = Len(svg.namedview.children) + 1
                  /\ SubSeq(svg'.namedview.children, 1, Len(svg.namedview.children))
                         = svg.namedview.children
                  /\ svg'.namedview.children[Len(svg'.namedview.children)].tag = "grid"
             ELSE /\ svg'.namedview.show_guides = svg.namedview.show_guides
                  /\ svg'.namedview.children = svg.namedview.children
      ]_vars

C10_Witness ==
    /\ ret.op = "set_namedview"
    /\ ret.err = NoError
    /\ runs = 1
    /\ options = [template |-> 1, add_shapes |-> TRUE, add_grid |-> FALSE]
    /\ Len(svg.namedview.guides) = 20
    /\ svg.namedview.show_guides = FALSE
    /\ svg.namedview.children = <<>>
    /\ Len(svg.children) = 2
    /\ svg.children[2].label = "Shapes"
    /\ Len(svg.children[2].children) = 24

\* The place of a guide in the order of get_guides: the four named guides,
\* then the unnamed horizontal ones, then the unnamed vertical ones.
GuideRank(g) ==
    CASE g[3] = "bottom offset" -> 1
      [] g[3] = "top offset" -> 2
      [] g[3] = "right offset" -> 3
      [] g[3] = "left offset" -> 4
      [] g[3] = None /\ g[2] -> 5
      [] g[3] = None /\ ~g[2] -> 6

C11_Example ==
    Label(A4, "mm", <<Tenths(700), Tenths(410)>>, <<3, 7>>,
          <<0, Tenths(50)>>, RECTANGLE, <<0, 0>>)

\* C11: in the sequence get_guides yields, every named offset guide precedes
\* every unnamed boundary guide, "bottom offset" then "top offset" precede
\* "right offset" then "left offset", and every unnamed horizontal guide
\* precedes every unnamed vertical guide; pageSize (210,297), labelSize
\* (70,41), grid (3,7), offset (0,5) gives 10 guides, the first 2 named and
\* the 3rd onward unnamed.
C11_GuideOrder ==
    /\ \A i, j \in 1..Len(guides) :
          i < j =>
             /\ GuideRank(guides[i]) <= GuideRank(guides[j])
             /\ guides[j][3] # None => GuideRank(guides[i]) < GuideRank(guides[j])
    /\ (GuidesDone /\ label = C11_Example) =>
          /\ Len(guides) = 10
          /\ guides[1][3] = "bottom offset"
          /\ guides[2][3] = "top offset"
          /\ \A k \in 3..10 : guides[k][3] = None

C11_Witness ==
    /\ GuidesDone
    /\ label = LABELS[2][2]
    /\ Len(guides) = 20
    /\ [k \in 1..4 |-> guides[k][3]] =
          <<"bottom offset", "top offset", "right offset", "left offset">>
    /\ \A k \in 5..14 : guides[k][3] = None /\ guides[k][2]
    /\ \A k \in 15..20 : guides[k][3] = None /\ ~guides[k][2]

\* The Labels of the catalog.
CatalogLabels == { LABELS[i][2] : i \in 1..Len(LABELS) }

\* The block of labels of l lies within the page of l.
FitsPage(l) ==
    /\ l.offset[1] + l.grid[1] * l.label_size[1]
           + (l.grid[1] - 1) * l.spacing[1] <= l.page_size[1]
    /\ l.offset[2] + l.grid[2] * l.label_size[2]
           + (l.grid[2] - 1) * l.spacing[2] <= l.page_size[2]

\* C12: for every entry of LABELS the block of labels fits on the page,
\* offset.x + cols*labelWidth + (cols-1)*spacing.x <= pageWidth and
\* offset.y + rows*labelHeight + (rows-1)*spacing.y <= pageHeight, and every
\* guide get_guides yields for it has a position p with 0 <= p <= pageHeight
\* if it is horizontal and 0 <= p <= pageWidth if it is vertical.
C12_CatalogFitsPage ==
    /\ \A l \in CatalogLabels : FitsPage(l)
    /\ label \in CatalogLabels =>
          \A k \in 1..Len(guides) :
              /\ 0 <= guides[k][1]
              /\ guides[k][1] <= IF guides[k][2] THEN label.page_size[2]
                                                 ELSE label.page_size[1]

C12_Witness ==
    /\ GuidesDone
    /\ label = LABELS[3][2]
    /\ Len(guides) = 8
    /\ guides[2] = <<Tenths(131), TRUE, "top offset">>
    /\ guides[4] = <<Tenths(80), FALSE, "left offset">>
    /\ guides[7] = <<Tenths(131 + 3 * 677), TRUE, None>>

====
